---- MODULE Spec2Model ----
(***************************************************************************)
(* listen-better.py: the recommendation-collection loop and the playlist   *)
(* sync, as a state machine.                                               *)
(*                                                                         *)
(* Strings whose content the code inspects (track and artist names,        *)
(* release dates) are sequences of one-character strings, so that          *)
(* str.strip, str.lower, str.split and int() are computed, not assumed.    *)
(* An optional value (None in the source) is the empty sequence, a         *)
(* present value v is <<v>>.  The text of a prompt is not inspected by the *)
(* code and is kept as a tag.                                              *)
(***************************************************************************)
EXTENDS Integers, Sequences, FiniteSets, TLC

VARIABLES
    pc,                     \* position of the script
    run,                    \* how many times the script has been started
    new_playlist,           \* catalog side: playlist NEW_PLAYLIST_NAME
    all_recs_playlist,      \* catalog side: playlist ALL_RECS_PLAYLIST_NAME
    all_my_liked_songs_set,
    all_recs_playlist_id,
    all_recs_history_track_ids_set,
    conversation_history,
    all_gemini_suggestions_this_session_raw_details,
    collected_new_songs_for_playlist_uris,
    collected_new_songs_for_playlist_details,
    attempt,                \* the loop variable of the attempt loop
    gemini_batch_recs_parsed,   \* suggestions of the batch not yet considered
    reasons,                \* why the last skipped candidate of the batch was skipped
    oracle_calls,           \* number of generate_content requests sent
    final_uris_for_new_playlist,
    final_details_for_all_recs_update,
    new_playlist_id,
    new_update,             \* what the run reported of the replace step
    all_recs_update         \* what the run reported of the append step

vars == << pc, run, new_playlist, all_recs_playlist, all_my_liked_songs_set,
           all_recs_playlist_id, all_recs_history_track_ids_set,
           conversation_history,
           all_gemini_suggestions_this_session_raw_details,
           collected_new_songs_for_playlist_uris,
           collected_new_songs_for_playlist_details, attempt,
           gemini_batch_recs_parsed, reasons, oracle_calls,
           final_uris_for_new_playlist, final_details_for_all_recs_update,
           new_playlist_id, new_update, all_recs_update >>

(***************************************************************************)
(* Bounds of the model and constants of the program.                       *)
(***************************************************************************)
\* the configured target count N (20 in the source), scaled
TARGET_NEW_SONGS_COUNT == 2
\* the configured attempt budget A (10 in the source), scaled
MAX_GEMINI_ATTEMPTS == 2
\* longest list of entries one oracle response carries
MaxBatch == 2
\* how many times the script is run against the same account
MaxRuns == 1
\* longest URI list handed to update_playlist_items in SpecSync
MaxSyncLen == 101

MAX_POPULARITY_THRESHOLD == 60
MIN_RELEASE_YEAR == 2021
\* per-request item limit of playlist_replace_items / playlist_add_items
ChunkLimit == 100
\* page size of playlist_items
PageLimit == 100

None == << >>
Some(v) == << v >>

Min(S) == CHOOSE x \in S : \A y \in S : x <= y
Max(S) == CHOOSE x \in S : \A y \in S : x >= y
Range(s) == { s[i] : i \in DOMAIN s }

(***************************************************************************)
(* Python string operations on character sequences.                        *)
(***************************************************************************)
UpperCase == << "A", "B", "C", "D", "E", "F", "G", "L", "O", "R" >>
LowerCase == << "a", "b", "c", "d", "e", "f", "g", "l", "o", "r" >>

LowerChar(c) ==
    IF \E i \in DOMAIN UpperCase : UpperCase[i] = c
    THEN LowerCase[CHOOSE i \in DOMAIN UpperCase : UpperCase[i] = c]
    ELSE c

\* str.lower()
Lower(s) == [ i \in DOMAIN s |-> LowerChar(s[i]) ]

\* str.strip()
Strip(s) ==
    LET keep == { i \in DOMAIN s : s[i] # " " }
    IN IF keep = {} THEN << >> ELSE SubSeq(s, Min(keep), Max(keep))

\* str.split('-')[0]
SplitFirst(s) ==
    LET dash == { i \in DOMAIN s : s[i] = "-" }
    IN IF dash = {} THEN s ELSE SubSeq(s, 1, Min(dash) - 1)

Digits == << "0", "1", "2", "3", "4", "5", "6", "7", "8", "9" >>

IsDigit(c) == \E i \in DOMAIN Digits : Digits[i] = c

DigitValue(c) == (CHOOSE i \in DOMAIN Digits : Digits[i] = c) - 1

\* str.isdigit()
IsDigitStr(s) == s # << >> /\ \A i \in DOMAIN s : IsDigit(s[i])

\* int(s) of a string of decimal digits
RECURSIVE IntOf(_)
IntOf(s) ==
    IF s = << >> THEN 0
    ELSE 10 * IntOf(SubSeq(s, 1, Len(s) - 1)) + DigitValue(s[Len(s)])

\* lines 252-261: the release year of a found track, None when the date is
\* absent or int() raises ValueError and the fallback does not apply
ParseReleaseYear(release_date_str) ==
    IF release_date_str = << >> THEN None
    ELSE IF IsDigitStr(SplitFirst(release_date_str))
         THEN Some(IntOf(SplitFirst(release_date_str)))
         ELSE IF Len(release_date_str) = 4 /\ IsDigitStr(release_date_str)
              THEN Some(IntOf(release_date_str))
              ELSE None

(***************************************************************************)
(* The catalog (the streaming service's tracks), an input of the program.  *)
(***************************************************************************)
Uri(id) == << "spotify:track", id >>
TrackIdOfUri(uri) == uri[2]

Track(id, name, artist, popularity, release_date) ==
    [ id |-> id, uri |-> Uri(id), name |-> name, artists |-> << artist >>,
      popularity |-> popularity, release_date |-> release_date ]

Catalog ==
    << Track(1, << "B", "l", "u", "e" >>, << "A", "r", "t", " ", "A" >>,
             Some(10), << "2", "0", "2", "3", "-", "0", "5", "-", "0", "1" >>),
       Track(2, << "G", "o", "l", "d" >>, << "A", "r", "t", " ", "B" >>,
             Some(60), << "2", "0", "2", "1" >>),
       Track(3, << "R", "e", "d", " " >>, << "A", "r", "t", " ", "C" >>,
             Some(10), << >>),
       Track(4, << "L", "o", "u", "d" >>, << "A", "r", "t", " ", "D" >>,
             Some(61), << "2", "0", "2", "3", "-", "0", "1" >>),
       Track(5, << "O", "l", "d" >>, << "A", "r", "t", " ", "E" >>,
             Some(10), << "2", "0", "2", "0", "-", "1", "2", "-", "3", "1" >>),
       Track(6, << "O", "d", "d" >>, << "A", "r", "t", " ", "F" >>,
             None, << "2", "0", "x", "1" >>) >>

CatalogIds == DOMAIN Catalog
\* a search that has no hit or raises
NotFound == 0

\* the user's saved tracks, as get_all_liked_songs_details returns them
LikedTrackIds == << 1, 3 >>
all_my_liked_songs_details ==
    [ i \in DOMAIN LikedTrackIds |->
        [ track |-> Catalog[LikedTrackIds[i]].name,
          artist |-> Catalog[LikedTrackIds[i]].artists[1] ] ]


\* lines 328-333: the liked-songs set, each name stripped then lower-cased
LikedSongsSet(details) ==
    { << Lower(Strip(d.track)), Lower(Strip(d.artist)) >> :
        d \in { e \in Range(details) :
                  Lower(Strip(e.track)) # << >> /\ Lower(Strip(e.artist)) # << >> } }

(***************************************************************************)
(* Playlists of the account.  A playlist is [exists, items], items being   *)
(* the URIs it holds, in order.                                            *)
(***************************************************************************)
NoPlaylist == [ exists |-> FALSE, items |-> << >> ]

\* what the catalog does to a find-or-create: "ok", the create request
\* raises ("create_error"), or the listing of playlists raises
\* ("lookup_error", not caught by the script)
PlaylistApi == { "ok", "create_error", "lookup_error" }

\* lines 109-122, for a listing that did not raise: the id (None when the
\* playlist is absent and cannot be created) and the playlist afterwards
get_or_create_playlist_id(playlist, playlist_name, api) ==
    IF playlist.exists
    THEN [ id |-> Some(playlist_name), playlist |-> playlist ]
    ELSE IF api = "create_error"
         THEN [ id |-> None, playlist |-> playlist ]
         ELSE [ id |-> Some(playlist_name),
                playlist |-> [ exists |-> TRUE, items |-> << >> ] ]

\* the track object playlist_items returns for a playlist item
TrackInfo(uri) == Catalog[TrackIdOfUri(uri)]

\* lines 135-144: the tracks of one page that have an id, a name and artists
RECURSIVE PageTracks(_)
PageTracks(page_items) ==
    IF page_items = << >> THEN << >>
    ELSE LET track_info == TrackInfo(Head(page_items))
         IN IF track_info.name # << >> /\ track_info.artists # << >>
            THEN << [ track |-> track_info.name,
                      artist |-> track_info.artists[1],
                      id |-> track_info.id ] >> \o PageTracks(Tail(page_items))
            ELSE PageTracks(Tail(page_items))

\* lines 130-151 from `offset` on; the request for page number fail_page
\* raises (0: none does), which ends the loop with the tracks read so far
RECURSIVE FetchPages(_, _, _, _)
FetchPages(items, offset, page, fail_page) ==
    IF page = fail_page THEN << >>
    ELSE LET last == IF offset + PageLimit < Len(items)
                     THEN offset + PageLimit ELSE Len(items)
             results == SubSeq(items, offset + 1, last)
         IN IF results = << >> THEN << >>
            ELSE IF last < Len(items)
                 THEN PageTracks(results)
                        \o FetchPages(items, offset + PageLimit, page + 1, fail_page)
                 ELSE PageTracks(results)

\* number of page requests a complete read of the playlist makes
PageCount(items) ==
    IF Len(items) = 0 THEN 1 ELSE (Len(items) + PageLimit - 1) \div PageLimit

\* lines 124-153
get_playlist_tracks_simplified(playlist_id, playlist, fail_page) ==
    IF playlist_id = None THEN << >>
    ELSE FetchPages(playlist.items, 0, 1, fail_page)

\* lines 344-347
HistoryTrackIds(existing_all_recs_songs_details) ==
    { d.id : d \in Range(existing_all_recs_songs_details) }

(***************************************************************************)
(* The oracle.  A response is an API error or a text; a text is empty,     *)
(* not JSON ("garbage"), a JSON list, or a JSON object with one key whose  *)
(* value is a list ("dict").  A list entry is a JSON object, modelled as a *)
(* record that has the keys it has.                                        *)
(***************************************************************************)
Suggestion == [ track |-> << "g", "o", "l", "d" >>,
                artist |-> << "a", "r", "t", " ", "b" >> ]
\* an entry without the "artist" key
MalformedEntry == [ track |-> << "g", "o", "l", "d" >> ]

Text(kind, items) == [ kind |-> kind, items |-> items ]

SuggestionLists ==
    { [ i \in 1..n |-> Suggestion ] : n \in 0..MaxBatch }

OracleTexts ==
    { Text("empty", << >>), Text("garbage", << >>),
      Text("dict", << Suggestion >>),
      Text("list", << MalformedEntry, Suggestion >>) }
    \cup { Text("list", l) : l \in SuggestionLists }

ApiError == [ error |-> TRUE, text |-> Text("empty", << >>) ]
OracleResponses ==
    { ApiError } \cup { [ error |-> FALSE, text |-> t ] : t \in OracleTexts }

Message(role, content) == [ role |-> role, content |-> content ]

\* lines 168-171
AdaptRole(role) == IF role = "assistant" THEN "model" ELSE role

\* the test of the last role against the wrong role
EndsWithModel(conversation_history_raw) ==
    /\ conversation_history_raw # << >>
    /\ AdaptRole(conversation_history_raw[Len(conversation_history_raw)].role) = "model"

\* lines 173-175: a request is sent only for a history ending in a user turn
EndsWithUser(conversation_history_raw) ==
    /\ conversation_history_raw # << >>
    /\ AdaptRole(conversation_history_raw[Len(conversation_history_raw)].role) = "user"

\* lines 218-223
RECURSIVE ValidRecommendations(_)
ValidRecommendations(recommendations) ==
    IF recommendations = << >> THEN << >>
    ELSE LET rec == Head(recommendations)
         IN IF "track" \in DOMAIN rec /\ "artist" \in DOMAIN rec
            THEN << [ track |-> rec.track, artist |-> rec.artist ] >>
                   \o ValidRecommendations(Tail(recommendations))
            ELSE ValidRecommendations(Tail(recommendations))

\* lines 155-232: (recommendations, raw text or None), and whether a request
\* was sent
get_gemini_recommendations_google_ai(conversation_history_raw, response) ==
    IF ~EndsWithUser(conversation_history_raw)
    THEN [ recs |-> << >>, raw |-> None, sent |-> FALSE ]
    ELSE IF response.error
    THEN [ recs |-> << >>, raw |-> None, sent |-> TRUE ]
    ELSE IF response.text.kind \in { "empty", "garbage" }
    THEN [ recs |-> << >>, raw |-> Some(response.text), sent |-> TRUE ]
    ELSE [ recs |-> ValidRecommendations(response.text.items),
           raw |-> Some(response.text), sent |-> TRUE ]

\* line 417: truth value of the raw text (None and "" are false)
RawIsTruthy(raw) == raw # None /\ raw[1].kind # "empty"

(***************************************************************************)
(* Catalog resolution, lines 235-278.  Each suggestion is searched on its  *)
(* own and a search reads nothing of the program's state, so the model     *)
(* draws the hit of a suggestion when the acceptance loop reaches it.      *)
(* `found` is the id of the first search hit, NotFound when there is none  *)
(* or the search raises.                                                   *)
(***************************************************************************)
SongInfo(found_track) ==
    [ uri |-> found_track.uri, id |-> found_track.id,
      track |-> found_track.name, artist |-> found_track.artists[1],
      popularity |-> found_track.popularity,
      release_year |-> ParseReleaseYear(found_track.release_date) ]

\* lines 238-275 for one suggestion: the enriched songs it contributes
verify_and_filter_songs_on_spotify(song_detail, found) ==
    IF song_detail.track = << >> \/ song_detail.artist = << >>
       \/ found = NotFound
    THEN << >>
    ELSE << SongInfo(Catalog[found]) >>

(***************************************************************************)
(* The acceptance policy, lines 432-460.                                   *)
(***************************************************************************)
\* the target test with > for >=
TargetReachedStrict(uris) == Len(uris) > TARGET_NEW_SONGS_COUNT

\* lines 382, 433, 475
TargetReached(uris) == Len(uris) >= TARGET_NEW_SONGS_COUNT

\* lines 436-439: the catalog names are lower-cased only
is_liked(song_info) ==
    << Lower(song_info.track), Lower(song_info.artist) >> \in all_my_liked_songs_set

\* no test against the history-ID set
NeverInHistory(song_info) == FALSE

\* line 440
is_in_all_recs_playlist_history(song_info) ==
    song_info.id \in all_recs_history_track_ids_set

\* no test against the songs collected so far
NeverAlreadyCollected(song_info, details) == FALSE

\* lines 441-443
is_already_collected_this_session(song_info, details) ==
    \E i \in DOMAIN details : details[i].id = song_info.id

\* the popularity test with the comparison turned round
TooPopularReversed(song_info) ==
    /\ song_info.popularity # None
    /\ song_info.popularity[1] < MAX_POPULARITY_THRESHOLD

\* lines 444-447
is_too_popular(song_info) ==
    /\ song_info.popularity # None
    /\ song_info.popularity[1] > MAX_POPULARITY_THRESHOLD

\* lines 448-451
is_too_old(song_info) ==
    /\ song_info.release_year # None
    /\ song_info.release_year[1] < MIN_RELEASE_YEAR

\* lines 453-457
Accepts(song_info, details) ==
    /\ ~is_liked(song_info)
    /\ ~is_in_all_recs_playlist_history(song_info)
    /\ ~is_already_collected_this_session(song_info, details)
    /\ ~is_too_popular(song_info)
    /\ ~is_too_old(song_info)

\* lines 464-469: the reasons given for a skipped candidate
Reasons(song_info, details) ==
    (IF is_liked(song_info) THEN { "is liked" } ELSE {})
    \cup (IF is_in_all_recs_playlist_history(song_info)
          THEN { "in history playlist" } ELSE {})
    \cup (IF is_already_collected_this_session(song_info, details)
          THEN { "already collected this session" } ELSE {})
    \cup (IF is_too_popular(song_info) THEN { "too popular" } ELSE {})
    \cup (IF is_too_old(song_info) THEN { "too old" } ELSE {})

\* one iteration more than MAX_GEMINI_ATTEMPTS
AttemptsLeftOffByOne(n) == n <= MAX_GEMINI_ATTEMPTS

\* line 381: range(MAX_GEMINI_ATTEMPTS)
AttemptsLeft(n) == n < MAX_GEMINI_ATTEMPTS

\* lines 480-481: list[:TARGET_NEW_SONGS_COUNT]
Truncate(list) ==
    SubSeq(list, 1, IF Len(list) < TARGET_NEW_SONGS_COUNT
                    THEN Len(list) ELSE TARGET_NEW_SONGS_COUNT)

(***************************************************************************)
(* update_playlist_items, lines 281-310, as the requests it sends.         *)
(***************************************************************************)
Request(op, uris) == [ op |-> op, uris |-> uris ]

\* the chunk loop stopping before a last chunk that is not full
AddRequestsFullChunksOnly(track_uris) ==
    [ c \in 1..(Len(track_uris) \div ChunkLimit) |->
        [ op |-> "add",
          uris |-> SubSeq(track_uris, (c - 1) * ChunkLimit + 1, c * ChunkLimit) ] ]

\* lines 299-300 and 303-304: one playlist_add_items per chunk
RECURSIVE AddRequests(_)
AddRequests(track_uris) ==
    IF track_uris = << >> THEN << >>
    ELSE IF Len(track_uris) <= ChunkLimit
         THEN << Request("add", track_uris) >>
         ELSE << Request("add", SubSeq(track_uris, 1, ChunkLimit)) >>
                \o AddRequests(SubSeq(track_uris, ChunkLimit + 1, Len(track_uris)))

\* a replace that always clears first and then adds
RequestsClearThenAdd(track_uris, replace) ==
    (IF replace THEN << Request("replace", << >>) >> ELSE << >>)
        \o AddRequests(track_uris)

\* a replace that adds to what the playlist holds
RequestsReplaceAsAdd(track_uris, replace) == AddRequests(track_uris)

\* the requests of one call, in order
Requests(track_uris, replace) ==
    IF track_uris = << >>
    THEN IF replace THEN << Request("replace", << >>) >> ELSE << >>
    ELSE IF replace
         THEN IF Len(track_uris) <= ChunkLimit
              THEN << Request("replace", track_uris) >>
              ELSE << Request("replace", << >>) >> \o AddRequests(track_uris)
         ELSE AddRequests(track_uris)

\* the playlist after the first n requests took effect
RECURSIVE AfterRequests(_, _, _)
AfterRequests(items, requests, n) ==
    IF n = 0 THEN items
    ELSE LET before == AfterRequests(items, requests, n - 1)
         IN IF requests[n].op = "replace" THEN requests[n].uris
            ELSE before \o requests[n].uris

\* request number fail_at raises and has no effect (0: none raises); the
\* result is the playlist's items and the value returned
update_playlist_items(items, playlist_id, track_uris, replace, fail_at) ==
    IF playlist_id = None THEN [ items |-> items, ok |-> FALSE ]
    ELSE LET requests == Requests(track_uris, replace)
         IN IF fail_at = 0
            THEN [ items |-> AfterRequests(items, requests, Len(requests)),
                   ok |-> TRUE ]
            ELSE [ items |-> AfterRequests(items, requests, fail_at - 1),
                   ok |-> FALSE ]

FailPoints(track_uris, replace) == 0..Len(Requests(track_uris, replace))


(***************************************************************************)
(* The script.                                                             *)
(***************************************************************************)
NEW_PLAYLIST_NAME == "New AI Deep Cuts"
ALL_RECS_PLAYLIST_NAME == "All AI Deep Cuts History"

\* the process is not running ("done": it is at its last line)
Ended == { "idle", "exited", "crashed", "done" }

\* the two playlists of the account when the script is first started: a
\* fresh account, an account on which an earlier run collected track 2 and
\* wrote it to both playlists, and one on which that run's append failed
Playlist(items) == [ exists |-> TRUE, items |-> items ]
AccountStates ==
    { [ new |-> NoPlaylist, all_recs |-> NoPlaylist ],
      [ new |-> Playlist(<< Uri(2) >>), all_recs |-> Playlist(<< Uri(2) >>) ],
      [ new |-> Playlist(<< Uri(2) >>), all_recs |-> Playlist(<< >>) ] }

\* the variables of the process; they exist while it runs
ProcessVars ==
    << all_my_liked_songs_set, all_recs_playlist_id,
       all_recs_history_track_ids_set, conversation_history,
       all_gemini_suggestions_this_session_raw_details,
       collected_new_songs_for_playlist_uris,
       collected_new_songs_for_playlist_details, attempt,
       gemini_batch_recs_parsed, reasons, oracle_calls,
       final_uris_for_new_playlist, final_details_for_all_recs_update,
       new_playlist_id >>

\* lines 350-354: the lists and counters a run starts from
LoopVarsBlank ==
    /\ all_gemini_suggestions_this_session_raw_details' = << >>
    /\ collected_new_songs_for_playlist_uris' = << >>
    /\ collected_new_songs_for_playlist_details' = << >>
    /\ attempt' = 0
    /\ gemini_batch_recs_parsed' = << >>
    /\ reasons' = {}
    /\ oracle_calls' = 0
    /\ final_uris_for_new_playlist' = << >>
    /\ final_details_for_all_recs_update' = << >>
    /\ new_playlist_id' = None

\* the process has ended (exit() or an exception nothing catches): its
\* variables are gone
ProcessGone ==
    /\ all_my_liked_songs_set' = {}
    /\ all_recs_playlist_id' = None
    /\ all_recs_history_track_ids_set' = {}
    /\ conversation_history' = << >>
    /\ LoopVarsBlank

Init ==
    /\ pc = "idle"
    /\ run = 0
    /\ \E account \in AccountStates :
         /\ new_playlist = account.new
         /\ all_recs_playlist = account.all_recs
    /\ all_my_liked_songs_set = {}
    /\ all_recs_playlist_id = None
    /\ all_recs_history_track_ids_set = {}
    /\ conversation_history = << >>
    /\ all_gemini_suggestions_this_session_raw_details = << >>
    /\ collected_new_songs_for_playlist_uris = << >>
    /\ collected_new_songs_for_playlist_details = << >>
    /\ attempt = 0
    /\ gemini_batch_recs_parsed = << >>
    /\ reasons = {}
    /\ oracle_calls = 0
    /\ final_uris_for_new_playlist = << >>
    /\ final_details_for_all_recs_update = << >>
    /\ new_playlist_id = None
    /\ new_update = "none"
    /\ all_recs_update = "none"

\* lines 313-378: the script is started; it builds the liked-songs set,
\* finds or creates the history playlist, reads it into the history-ID set
\* and seeds the conversation
StartRun ==
    /\ pc \in Ended
    /\ run < MaxRuns
    /\ run' = run + 1
    /\ new_update' = "none"
    /\ all_recs_update' = "none"
    /\ \E api \in PlaylistApi :
         IF api = "lookup_error"
         THEN /\ pc' = "crashed"
              /\ ProcessGone
              /\ UNCHANGED all_recs_playlist
         ELSE LET found == get_or_create_playlist_id(all_recs_playlist,
                                                     ALL_RECS_PLAYLIST_NAME, api)
              IN /\ all_my_liked_songs_set' =
                        LikedSongsSet(all_my_liked_songs_details)
                 /\ all_recs_playlist' = found.playlist
                 /\ all_recs_playlist_id' = found.id
                 /\ \E fail_page \in 0..PageCount(found.playlist.items) :
                      all_recs_history_track_ids_set' =
                          HistoryTrackIds(get_playlist_tracks_simplified(
                              found.id, found.playlist, fail_page))
                 /\ LoopVarsBlank
                 /\ conversation_history' =
                        << Message("user", "initial_user_prompt") >>
                 /\ pc' = "loop"
    /\ UNCHANGED new_playlist

\* the follow-up that starts the history afresh instead of extending it
HistoryRestarted(history, n) ==
    IF n > 0 THEN << Message("user", "follow_up_user_prompt") >> ELSE history

\* lines 391-409: the history an attempt sends; every attempt after the
\* first appends a follow-up user message
HistoryToSend(history, n) ==
    IF n > 0 THEN Append(history, Message("user", "follow_up_user_prompt"))
    ELSE history

\* lines 381-429: an iteration of the attempt loop up to the batch of
\* suggestions; an iteration without suggestions ends here (line 424)
Attempt ==
    /\ pc = "loop"
    /\ AttemptsLeft(attempt)
    /\ ~TargetReached(collected_new_songs_for_playlist_uris)
    /\ \E response \in OracleResponses :
         LET asked == HistoryToSend(conversation_history, attempt)
             result == get_gemini_recommendations_google_ai(asked, response)
             answered == IF RawIsTruthy(result.raw)
                         THEN Append(asked, Message("model", "raw_model_response"))
                         ELSE asked
         IN /\ conversation_history' = answered
            /\ oracle_calls' = oracle_calls + (IF result.sent THEN 1 ELSE 0)
            /\ gemini_batch_recs_parsed' = result.recs
            /\ all_gemini_suggestions_this_session_raw_details' =
                   all_gemini_suggestions_this_session_raw_details \o result.recs
            /\ IF result.recs = << >>
               THEN attempt' = attempt + 1 /\ pc' = "loop"
               ELSE attempt' = attempt /\ pc' = "batch"
    /\ UNCHANGED << run, new_playlist, all_recs_playlist,
                    all_my_liked_songs_set, all_recs_playlist_id,
                    all_recs_history_track_ids_set,
                    collected_new_songs_for_playlist_uris,
                    collected_new_songs_for_playlist_details, reasons,
                    final_uris_for_new_playlist,
                    final_details_for_all_recs_update, new_playlist_id,
                    new_update, all_recs_update >>

\* lines 238-275 and 432-470 for the next suggestion of the batch: it is
\* searched, and its hit is collected or skipped
Consider ==
    /\ pc = "batch"
    /\ gemini_batch_recs_parsed # << >>
    /\ ~TargetReached(collected_new_songs_for_playlist_uris)
    /\ \E found \in CatalogIds \cup { NotFound } :
         LET enriched == verify_and_filter_songs_on_spotify(
                             Head(gemini_batch_recs_parsed), found)
         IN IF enriched = << >>
            THEN UNCHANGED << collected_new_songs_for_playlist_uris,
                              collected_new_songs_for_playlist_details, reasons >>
            ELSE IF Accepts(enriched[1], collected_new_songs_for_playlist_details)
            THEN /\ collected_new_songs_for_playlist_uris' =
                        Append(collected_new_songs_for_playlist_uris,
                               enriched[1].uri)
                 /\ collected_new_songs_for_playlist_details' =
                        Append(collected_new_songs_for_playlist_details,
                               enriched[1])
                 /\ UNCHANGED reasons
            ELSE /\ reasons' = Reasons(enriched[1],
                                       collected_new_songs_for_playlist_details)
                 /\ UNCHANGED << collected_new_songs_for_playlist_uris,
                                 collected_new_songs_for_playlist_details >>
    /\ gemini_batch_recs_parsed' = Tail(gemini_batch_recs_parsed)
    /\ UNCHANGED << pc, run, new_playlist, all_recs_playlist,
                    all_my_liked_songs_set, all_recs_playlist_id,
                    all_recs_history_track_ids_set, conversation_history,
                    all_gemini_suggestions_this_session_raw_details, attempt,
                    oracle_calls, final_uris_for_new_playlist,
                    final_details_for_all_recs_update, new_playlist_id,
                    new_update, all_recs_update >>

\* lines 433-434 and 472-478: the batch is exhausted or the target count is
\* reached; the iteration ends, and with it the scope of `reasons`, which
\* the next skipped candidate assigns before anything reads it
EndBatch ==
    /\ pc = "batch"
    /\ \/ gemini_batch_recs_parsed = << >>
       \/ TargetReached(collected_new_songs_for_playlist_uris)
    /\ gemini_batch_recs_parsed' = << >>
    /\ reasons' = {}
    /\ attempt' = attempt + 1
    /\ pc' = "loop"
    /\ UNCHANGED << run, new_playlist, all_recs_playlist,
                    all_my_liked_songs_set, all_recs_playlist_id,
                    all_recs_history_track_ids_set, conversation_history,
                    all_gemini_suggestions_this_session_raw_details,
                    collected_new_songs_for_playlist_uris,
                    collected_new_songs_for_playlist_details, oracle_calls,
                    final_uris_for_new_playlist,
                    final_details_for_all_recs_update, new_playlist_id,
                    new_update, all_recs_update >>

\* lines 381-384 and 475-485: the loop is left, on the target count or on
\* the exhausted budget; the script exits when nothing was collected
Finish ==
    /\ pc = "loop"
    /\ \/ ~AttemptsLeft(attempt)
       \/ TargetReached(collected_new_songs_for_playlist_uris)
    /\ IF Truncate(collected_new_songs_for_playlist_uris) = << >>
       THEN /\ pc' = "exited"
            /\ ProcessGone
       ELSE /\ pc' = "sync"
            /\ final_uris_for_new_playlist' =
                   Truncate(collected_new_songs_for_playlist_uris)
            /\ final_details_for_all_recs_update' =
                   Truncate(collected_new_songs_for_playlist_details)
            /\ UNCHANGED << all_my_liked_songs_set, all_recs_playlist_id,
                            all_recs_history_track_ids_set, conversation_history,
                            all_gemini_suggestions_this_session_raw_details,
                            collected_new_songs_for_playlist_uris,
                            collected_new_songs_for_playlist_details, attempt,
                            gemini_batch_recs_parsed, reasons, oracle_calls,
                            new_playlist_id >>
    /\ UNCHANGED << run, new_playlist, all_recs_playlist, new_update,
                    all_recs_update >>

\* lines 500-501
UrisOf(details) == [ i \in DOMAIN details |-> details[i].uri ]

\* lines 491-498: find or create the latest-batch playlist and replace its
\* items.  The result is the playlist afterwards and what is reported:
\* "skipped" (no playlist), "failed" or "ok"
SyncNewPlaylist(playlist, track_uris, api, fail_at) ==
    LET found == get_or_create_playlist_id(playlist, NEW_PLAYLIST_NAME, api)
        updated == update_playlist_items(found.playlist.items, found.id,
                                         track_uris, TRUE, fail_at)
    IN IF found.id = None
       THEN [ playlist |-> found.playlist, report |-> "skipped" ]
       ELSE [ playlist |-> [ exists |-> TRUE, items |-> updated.items ],
              report |-> IF updated.ok THEN "ok" ELSE "failed" ]

\* the append without the test of all_recs_playlist_id
SyncAllRecsPlaylistUnguarded(playlist, playlist_id, details, fail_at) ==
    LET updated == update_playlist_items(playlist.items, playlist_id,
                                         UrisOf(details), FALSE, fail_at)
    IN [ playlist |-> [ exists |-> playlist.exists, items |-> updated.items ],
         report |-> IF updated.ok THEN "ok" ELSE "failed" ]

\* lines 500-507: append the same URIs to the history playlist
SyncAllRecsPlaylist(playlist, playlist_id, details, fail_at) ==
    LET updated == update_playlist_items(playlist.items, playlist_id,
                                         UrisOf(details), FALSE, fail_at)
    IN IF playlist_id # None /\ details # << >>
       THEN [ playlist |-> [ exists |-> TRUE, items |-> updated.items ],
              report |-> IF updated.ok THEN "ok" ELSE "failed" ]
       ELSE [ playlist |-> playlist, report |-> "skipped" ]

\* lines 487-509: the playlist sync, to the end of the script.  The listing
\* of playlists (line 97) and the requests for a playlist's URL (lines 495
\* and 504) are not guarded: when one raises, the script stops there
PlaylistSync ==
    /\ pc = "sync"
    /\ \/ \* the listing of playlists raises
          /\ pc' = "crashed"
          /\ UNCHANGED << new_playlist, all_recs_playlist, new_update,
                          all_recs_update >>
       \/ \E api \in PlaylistApi \ { "lookup_error" },
             fail_new \in FailPoints(final_uris_for_new_playlist, TRUE) :
            LET new == SyncNewPlaylist(new_playlist, final_uris_for_new_playlist,
                                       api, fail_new)
            IN /\ new_playlist' = new.playlist
               /\ new_update' = new.report
               /\ \/ \* the request for the playlist's URL raises
                     /\ new.report = "ok"
                     /\ pc' = "crashed"
                     /\ UNCHANGED << all_recs_playlist, all_recs_update >>
                  \/ \E fail_all \in FailPoints(
                            UrisOf(final_details_for_all_recs_update), FALSE) :
                       LET all_recs ==
                             SyncAllRecsPlaylist(all_recs_playlist,
                                 all_recs_playlist_id,
                                 final_details_for_all_recs_update, fail_all)
                       IN /\ all_recs_playlist' = all_recs.playlist
                          /\ all_recs_update' = all_recs.report
                          /\ \/ pc' = "done"
                             \/ all_recs.report = "ok" /\ pc' = "crashed"
    /\ IF pc' = "done"
       THEN /\ new_playlist_id' =
                   IF new_update' = "skipped" THEN None
                   ELSE Some(NEW_PLAYLIST_NAME)
            /\ UNCHANGED << all_my_liked_songs_set, all_recs_playlist_id,
                            all_recs_history_track_ids_set, conversation_history,
                            all_gemini_suggestions_this_session_raw_details,
                            collected_new_songs_for_playlist_uris,
                            collected_new_songs_for_playlist_details, attempt,
                            gemini_batch_recs_parsed, reasons, oracle_calls,
                            final_uris_for_new_playlist,
                            final_details_for_all_recs_update >>
       ELSE ProcessGone
    /\ UNCHANGED run

Next ==
    StartRun \/ Attempt \/ Consider \/ EndBatch \/ Finish \/ PlaylistSync

Spec == Init /\ [][Next]_vars

(***************************************************************************)
(* One run of the script on an account as earlier runs left it.            *)
(***************************************************************************)
FirstRun == pc = "idle" /\ StartRun

NextRun ==
    FirstRun \/ Attempt \/ Consider \/ EndBatch \/ Finish \/ PlaylistSync

SpecRun == Init /\ [][NextRun]_vars

(***************************************************************************)
(* The playlist sync on its own, for every final list of 1..MaxSyncLen     *)
(* songs (TARGET_NEW_SONGS_COUNT is a setting of the script; a list longer *)
(* than ChunkLimit needs a setting above it).                              *)
(***************************************************************************)
SyncSong(i) ==
    [ uri |-> Uri(i), id |-> i, track |-> << "t" >>, artist |-> << "a" >>,
      popularity |-> None, release_year |-> None ]

InitSync ==
    /\ pc = "sync"
    /\ run = 1
    /\ \E account \in AccountStates :
         /\ new_playlist = account.new
         /\ all_recs_playlist = account.all_recs
         /\ all_recs_playlist_id =
                IF account.all_recs.exists THEN Some(ALL_RECS_PLAYLIST_NAME)
                ELSE None
    /\ all_my_liked_songs_set = LikedSongsSet(all_my_liked_songs_details)
    /\ all_recs_history_track_ids_set = {}
    /\ conversation_history =
           << Message("user", "initial_user_prompt"),
              Message("model", "raw_model_response") >>
    /\ \E n \in 1..MaxSyncLen :
         /\ all_gemini_suggestions_this_session_raw_details =
                [ i \in 1..n |-> Suggestion ]
         /\ collected_new_songs_for_playlist_details =
                [ i \in 1..n |-> SyncSong(i) ]
         /\ collected_new_songs_for_playlist_uris = [ i \in 1..n |-> Uri(i) ]
         /\ final_details_for_all_recs_update = [ i \in 1..n |-> SyncSong(i) ]
         /\ final_uris_for_new_playlist = [ i \in 1..n |-> Uri(i) ]
    /\ attempt = 1
    /\ gemini_batch_recs_parsed = << >>
    /\ reasons = {}
    /\ oracle_calls = 1
    /\ new_playlist_id = None
    /\ new_update = "none"
    /\ all_recs_update = "none"

SpecSync == InitSync /\ [][PlaylistSync]_vars

(***************************************************************************)
(* Properties of the collection loop.                                      *)
(***************************************************************************)
CollectedIds ==
    { collected_new_songs_for_playlist_details[i].id :
        i \in DOMAIN collected_new_songs_for_playlist_details }

\* C1: the collected list never holds more than TARGET_NEW_SONGS_COUNT
\* entries, whatever the batches held and whichever candidates were
\* accepted, and neither does the final list handed to the playlist sync
C1_SizeAtMostTarget ==
    /\ Len(collected_new_songs_for_playlist_uris) <= TARGET_NEW_SONGS_COUNT
    /\ Len(collected_new_songs_for_playlist_details) <= TARGET_NEW_SONGS_COUNT
    /\ Len(final_uris_for_new_playlist) <= TARGET_NEW_SONGS_COUNT
    /\ Len(final_details_for_all_recs_update) <= TARGET_NEW_SONGS_COUNT

\* the target is reached in the middle of a batch: suggestions are left over
C1_Witness ==
    /\ pc = "batch"
    /\ Len(collected_new_songs_for_playlist_uris) = TARGET_NEW_SONGS_COUNT
    /\ gemini_batch_recs_parsed # << >>

\* C2: no collected entry has a trimmed, lower-cased (title, artist) pair
\* that is in the liked-songs set
C2_NoLikedSongCollected ==
    \A i \in DOMAIN collected_new_songs_for_playlist_details :
        << Lower(Strip(collected_new_songs_for_playlist_details[i].track)),
           Lower(Strip(collected_new_songs_for_playlist_details[i].artist)) >>
            \notin all_my_liked_songs_set

\* C3: no two collected entries have the same catalog id
C3_NoDuplicateIds ==
    \A i, j \in DOMAIN collected_new_songs_for_playlist_details :
        i # j => collected_new_songs_for_playlist_details[i].id
                     # collected_new_songs_for_playlist_details[j].id

\* a candidate already collected came again and was skipped for that alone
C3_Witness ==
    /\ reasons = { "already collected this session" }
    /\ collected_new_songs_for_playlist_details # << >>

\* C4: no collected entry has a catalog id of the history-ID set read at
\* the start of the run
C4_NoneFromHistory ==
    CollectedIds \cap all_recs_history_track_ids_set = {}

\* a candidate of the history playlist was skipped, another was collected
C4_Witness ==
    /\ reasons = { "in history playlist" }
    /\ all_recs_history_track_ids_set # {}
    /\ collected_new_songs_for_playlist_details # << >>

\* C5: every collected entry has a popularity that is unknown or at most
\* MAX_POPULARITY_THRESHOLD and a release year that is unknown or at least
\* MIN_RELEASE_YEAR; a candidate above the threshold is never collected,
\* whatever its year, and an unknown year does not keep a candidate out
C5_PopularityAndYear ==
    /\ \A i \in DOMAIN collected_new_songs_for_playlist_details :
         LET song_info == collected_new_songs_for_playlist_details[i]
         IN /\ \/ song_info.popularity = None
               \/ song_info.popularity[1] <= MAX_POPULARITY_THRESHOLD
            /\ \/ song_info.release_year = None
               \/ song_info.release_year[1] >= MIN_RELEASE_YEAR
    /\ \A id \in CollectedIds :
         ~ (Catalog[id].popularity # None
            /\ Catalog[id].popularity[1] > MAX_POPULARITY_THRESHOLD)
    /\ \A id \in CatalogIds :
         SongInfo(Catalog[id]).release_year = None
             => ~ is_too_old(SongInfo(Catalog[id]))

\* a candidate above the threshold with an acceptable year was skipped and
\* a candidate with an unknown year is collected
C5_Witness ==
    /\ reasons = { "too popular" }
    /\ \E i \in DOMAIN collected_new_songs_for_playlist_details :
         collected_new_songs_for_playlist_details[i].release_year = None

\* C6: a run sends at most MAX_GEMINI_ATTEMPTS requests to the oracle, one
\* for every iteration begun, an iteration without suggestions included;
\* the loop ends before the budget is used up only with the target reached,
\* and with the target reached no further request is sent
C6_OracleCallBudget ==
    /\ oracle_calls <= MAX_GEMINI_ATTEMPTS
    /\ pc = "loop" => oracle_calls = attempt
    /\ pc = "batch" => oracle_calls = attempt + 1
    /\ (pc \in { "sync", "done" } /\ oracle_calls < MAX_GEMINI_ATTEMPTS) =>
           Len(collected_new_songs_for_playlist_uris) >= TARGET_NEW_SONGS_COUNT
    /\ (pc \in { "loop", "batch" }
        /\ Len(collected_new_songs_for_playlist_uris) >= TARGET_NEW_SONGS_COUNT)
           => ~ ENABLED Attempt
    /\ (pc = "loop" /\ oracle_calls < MAX_GEMINI_ATTEMPTS
        /\ Len(collected_new_songs_for_playlist_uris) < TARGET_NEW_SONGS_COUNT)
           => (ENABLED Attempt /\ ~ ENABLED Finish)

\* the target was reached on the first request and the loop was left with
\* budget to spare, after no other request
C6_Witness ==
    /\ pc = "sync"
    /\ oracle_calls = 1
    /\ oracle_calls < MAX_GEMINI_ATTEMPTS
    /\ Len(final_uris_for_new_playlist) = TARGET_NEW_SONGS_COUNT

(***************************************************************************)
(* Properties of the playlist sync.                                        *)
(***************************************************************************)
\* the leading parts of a list that whole chunks make up
ChunkPrefixes(track_uris) ==
    { SubSeq(track_uris, 1, Min({ c * ChunkLimit, Len(track_uris) })) :
        c \in 0..(Len(track_uris) \div ChunkLimit + 1) }

\* C7, as claimed: whatever the number of URIs and whichever request fails,
\* the latest-batch playlist holds after the sync what it held before or the
\* whole final list in acceptance order
C7_ReplaceAtomic ==
    [][pc = "sync" =>
         \/ new_playlist'.items = new_playlist.items
         \/ new_playlist'.items = final_uris_for_new_playlist]_vars

\* C7, amended: that holds for a final list of at most ChunkLimit URIs, sent
\* in one replace request; a longer list is sent as a clear and one add per
\* chunk, and a failing request leaves the playlist as it was, empty, or
\* holding the leading chunks of the list
C7_ReplaceAtomicWithinChunk ==
    [][pc = "sync" =>
         /\ Len(final_uris_for_new_playlist) <= ChunkLimit =>
               \/ new_playlist'.items = new_playlist.items
               \/ new_playlist'.items = final_uris_for_new_playlist
         /\ Len(final_uris_for_new_playlist) > ChunkLimit =>
               \/ new_playlist'.items = new_playlist.items
               \/ new_playlist'.items \in ChunkPrefixes(final_uris_for_new_playlist)
         /\ new_update' = "ok" =>
               new_playlist'.items = final_uris_for_new_playlist]_vars

\* the replace request for a full chunk failed: the playlist keeps the
\* earlier run's song
C7_Witness ==
    /\ pc = "done"
    /\ new_update = "failed"
    /\ Len(final_uris_for_new_playlist) = ChunkLimit
    /\ new_playlist.items = << Uri(2) >>

\* C8, as claimed: after a run that reached its end, one that collected
\* nothing included, a latest-batch playlist that exists and whose write
\* did not fail holds this run's accepted songs and nothing else
C8_OnlyThisRun ==
    /\ (pc = "done" /\ new_update = "ok") =>
           new_playlist.items = final_uris_for_new_playlist
    /\ (pc = "exited" /\ new_playlist.exists) => new_playlist.items = << >>

\* C8, amended: after a run that collected at least one song and whose
\* replace succeeded, the latest-batch playlist holds exactly this run's
\* accepted songs; a run that collected nothing exits before the sync, and
\* no step before the sync changes the latest-batch playlist
C8_OnlyThisRunWhenCollected ==
    [][/\ (pc' = "done" /\ new_update' = "ok") =>
              /\ new_playlist'.items
                     = UrisOf(collected_new_songs_for_playlist_details')
              /\ new_playlist'.items # << >>
       /\ pc' = "exited" =>
              /\ pc = "loop"
              /\ collected_new_songs_for_playlist_details = << >>
       /\ pc # "sync" => new_playlist' = new_playlist]_vars

\* the earlier run's song 2, still first in the history playlist, is gone
\* from the latest-batch playlist after this run's replace
C8_Witness ==
    /\ pc = "done"
    /\ new_update = "ok"
    /\ all_recs_playlist.items # << >>
    /\ Head(all_recs_playlist.items) = Uri(2)
    /\ Uri(2) \notin Range(new_playlist.items)
    /\ new_playlist.items # << >>

C10_HistoryRecordsAccepted ==
    /\ (pc = "done" /\ new_update = "ok") =>
           Range(collected_new_songs_for_playlist_uris)
               \subseteq Range(all_recs_playlist.items)
    /\ pc \in { "loop", "batch", "sync" } =>
           Range(collected_new_songs_for_playlist_uris)
               \cap Range(all_recs_playlist.items) = {}

\* the history-ID set holds every song of the history playlist
HistoryReadComplete ==
    all_recs_history_track_ids_set
        = { TrackIdOfUri(uri) : uri \in Range(all_recs_playlist.items) }

\* C10, amended: after a run whose append to the history playlist succeeded
\* every song it collected is in the history playlist, and a run that read
\* the whole history playlist at its start collects no song of it
C10_HistoryRecordsAppended ==
    /\ (pc = "done" /\ all_recs_update = "ok") =>
           Range(collected_new_songs_for_playlist_uris)
               \subseteq Range(all_recs_playlist.items)
    /\ (pc \in { "loop", "batch", "sync" } /\ HistoryReadComplete) =>
           Range(collected_new_songs_for_playlist_uris)
               \cap Range(all_recs_playlist.items) = {}

\* a run that found song 2 in the history playlist collected other songs
\* and appended them after it
C10_Witness ==
    /\ pc = "done"
    /\ all_recs_update = "ok"
    /\ 2 \in all_recs_history_track_ids_set
    /\ Head(all_recs_playlist.items) = Uri(2)
    /\ Len(all_recs_playlist.items)
           = 1 + Len(collected_new_songs_for_playlist_uris)

(***************************************************************************)
(* Properties of the conversation.                                         *)
(***************************************************************************)
\* user and model turns alternate, from the seed message to a last user turn
Alternates(history) ==
    /\ history # << >>
    /\ history[1] = Message("user", "initial_user_prompt")
    /\ \A i \in DOMAIN history :
         AdaptRole(history[i].role) = IF i % 2 = 1 THEN "user" ELSE "model"
    /\ Len(history) % 2 = 1

\* C11: whenever the loop is about to send the history to the oracle, the
\* history sent starts with the seed message, alternates user and model
\* turns and ends in a user turn
C11_AlternatesBeforeSend ==
    (pc = "loop" /\ ENABLED Attempt) =>
        Alternates(HistoryToSend(conversation_history, attempt))

IsPrefix(s, t) == Len(s) <= Len(t) /\ SubSeq(t, 1, Len(s)) = s
IsStrictPrefix(s, t) == IsPrefix(s, t) /\ Len(s) < Len(t)

\* a step that is the oracle call of an attempt
IsAttemptStep == pc = "loop" /\ pc' \in { "loop", "batch" }

FailedResponses ==
    { response \in OracleResponses :
        response.error \/ response.text.kind \in { "empty", "garbage" } }

\* an oracle call that gave no valid suggestion
IsFailedAttemptStep == IsAttemptStep /\ gemini_batch_recs_parsed' = << >>

\* seed message, a text, follow-up, a text
TwoAnsweredTurns ==
    << Message("user", "initial_user_prompt"),
       Message("model", "raw_model_response"),
       Message("user", "follow_up_user_prompt"),
       Message("model", "raw_model_response") >>

MeetsCriteria(song_info, details) ==
    /\ << Lower(Strip(song_info.track)), Lower(Strip(song_info.artist)) >>
           \notin all_my_liked_songs_set
    /\ song_info.id \notin all_recs_history_track_ids_set
    /\ \A i \in DOMAIN details : details[i].id # song_info.id
    /\ \/ song_info.popularity = None
       \/ song_info.popularity[1] <= MAX_POPULARITY_THRESHOLD
    /\ \/ song_info.release_year = None
       \/ song_info.release_year[1] >= MIN_RELEASE_YEAR

\* C14: below the target count a candidate is appended to the end of the
\* collected list exactly when it meets the five conditions: a step of the
\* acceptance loop leaves the list as it was or appends one song that meets
\* them, never with the target reached, and a song that meets them passes
\* the test
C14_AcceptanceExact ==
    /\ [][pc = "batch" =>
            \/ /\ collected_new_songs_for_playlist_details'
                      = collected_new_songs_for_playlist_details
               /\ collected_new_songs_for_playlist_uris'
                      = collected_new_songs_for_playlist_uris
            \/ /\ Len(collected_new_songs_for_playlist_details)
                      < TARGET_NEW_SONGS_COUNT
               /\ \E id \in CatalogIds :
                    /\ collected_new_songs_for_playlist_details'
                           = Append(collected_new_songs_for_playlist_details,
                                    SongInfo(Catalog[id]))
                    /\ collected_new_songs_for_playlist_uris'
                           = Append(collected_new_songs_for_playlist_uris,
                                    Catalog[id].uri)
                    /\ MeetsCriteria(SongInfo(Catalog[id]),
                                     collected_new_songs_for_playlist_details)]_vars
    /\ [](pc = "batch" =>
            \A id \in CatalogIds :
               MeetsCriteria(SongInfo(Catalog[id]),
                             collected_new_songs_for_playlist_details)
                   => Accepts(SongInfo(Catalog[id]),
                              collected_new_songs_for_playlist_details))

====
